---- MODULE Spec2Model ----
(***************************************************************************)
(* Model of the stock calculator core (src/src/stock_utilities.py): the    *)
(* StockData record with its trade ledger, the four operations on it and   *)
(* GBCECalculator.calculate_gbce_all_share_index.                          *)
(*                                                                         *)
(* Numbers.  Python floats are modelled as exact rationals, a value being  *)
(* the record [t |-> "float", n, d] in lowest terms with d > 0.  None and  *)
(* the raised exceptions are values of the same shape with another tag, so *)
(* that the outcome of every call is one record.  Trade quantities and     *)
(* trade prices are kept as integers in the ledger.                        *)
(*                                                                         *)
(* Time.  datetime.now() is the variable clock, counted in minutes; the    *)
(* environment advances it between calls.                                  *)
(***************************************************************************)
EXTENDS Integers, Sequences, FiniteSets, TLC

VARIABLES
    enumSemantics,  \* how the interpreter evaluates `x in TradeType` for a non-member x
    clock,          \* the wall clock read by datetime.now(), in minutes
    stocks,         \* symbol -> StockData instance (static attributes and trades)
    ret,            \* the most recent call: operation, arguments, clock reading, outcome
    memo,           \* an earlier read-only call, kept for comparison with later ones
    shell           \* the interactive session of main.py: where it stands, what it showed

vars == <<enumSemantics, clock, stocks, ret, memo, shell>>

----------------------------------------------------------------------------
(* Bounds of the model *)

MaxClock == 30          \* the clock stops advancing here
MaxTrades == 2          \* ledger entries, all stocks together
MaxRecords == 2         \* length of the list handed to the index calculator

TickMinutes == {15}     \* amounts by which the clock advances between calls

Symbols == {"TEA", "GIN"}

----------------------------------------------------------------------------
(* Python values *)

Abs(x) == IF x < 0 THEN -x ELSE x

RECURSIVE GCD(_, _)
GCD(a, b) == IF b = 0 THEN a ELSE GCD(b, a % b)

\* the float n/d (d # 0), in lowest terms
Float(n, d) ==
    LET g == GCD(Abs(n), Abs(d))
        s == IF d < 0 THEN -1 ELSE 1
    IN  [t |-> "float", n |-> (s * n) \div g, d |-> (s * d) \div g]

None == [t |-> "None", n |-> 0, d |-> 1]
ValueError == [t |-> "ValueError", n |-> 0, d |-> 1]
TypeError == [t |-> "TypeError", n |-> 0, d |-> 1]
ZeroDivisionError == [t |-> "ZeroDivisionError", n |-> 0, d |-> 1]

IsFloat(v) == v.t = "float"
IsError(v) == v.t \in {"ValueError", "TypeError", "ZeroDivisionError"}

Mul(a, b) == Float(a.n * b.n, a.d * b.d)
\* a / b; Python raises ZeroDivisionError for b == 0
Div(a, b) == IF b.n = 0 THEN ZeroDivisionError ELSE Float(a.n * b.d, a.d * b.n)

\* class StockType(Enum), class TradeType(Enum)
StockType == {"StockType.COMMON", "StockType.PREFERRED"}
TradeType == {"TradeType.BUY", "TradeType.SELL"}
\* the values of the TradeType members
TradeTypeValues == {"BUY", "SELL"}

\* timedelta(minutes=15)
FifteenMinutes == 15

----------------------------------------------------------------------------
(* StockData *)

\* StockData.__init__
StockData(stock_type, last_dividend, fixed_dividend, par_value) ==
    [stock_type |-> stock_type, last_dividend |-> last_dividend,
     fixed_dividend |-> fixed_dividend, par_value |-> par_value,
     trades |-> <<>>]

\* dividend_yield rejecting only negative prices: price < 0
dividend_yield_negative_price(self, price) ==
    IF price.n < 0 THEN ValueError
    ELSE IF self.stock_type = "StockType.COMMON"
         THEN IF self.last_dividend = None \/ self.last_dividend.n < 0
              THEN ValueError
              ELSE Div(self.last_dividend, price)
    ELSE IF self.stock_type = "StockType.PREFERRED"
         THEN IF self.fixed_dividend = None \/ self.fixed_dividend.n <= 0
              THEN ValueError
              ELSE Div(Mul(self.fixed_dividend, self.par_value), price)
    ELSE None

\* dividend_yield rejecting a last dividend of zero, as its docstring words it:
\* self.last_dividend <= 0
dividend_yield_positive_dividend(self, price) ==
    IF price.n <= 0 THEN ValueError
    ELSE IF self.stock_type = "StockType.COMMON"
         THEN IF self.last_dividend = None \/ self.last_dividend.n <= 0
              THEN ValueError
              ELSE Div(self.last_dividend, price)
    ELSE IF self.stock_type = "StockType.PREFERRED"
         THEN IF self.fixed_dividend = None \/ self.fixed_dividend.n <= 0
              THEN ValueError
              ELSE Div(Mul(self.fixed_dividend, self.par_value), price)
    ELSE None

\* dividend_yield leaving the par value out: self.fixed_dividend / price
dividend_yield_without_par(self, price) ==
    IF price.n <= 0 THEN ValueError
    ELSE IF self.stock_type = "StockType.COMMON"
         THEN IF self.last_dividend = None \/ self.last_dividend.n < 0
              THEN ValueError
              ELSE Div(self.last_dividend, price)
    ELSE IF self.stock_type = "StockType.PREFERRED"
         THEN IF self.fixed_dividend = None \/ self.fixed_dividend.n <= 0
              THEN ValueError
              ELSE Div(self.fixed_dividend, price)
    ELSE None

\* StockData.dividend_yield
dividend_yield(self, price) ==
    IF price.n <= 0 THEN ValueError
    ELSE IF self.stock_type = "StockType.COMMON"
         THEN IF self.last_dividend = None \/ self.last_dividend.n < 0
              THEN ValueError
              ELSE Div(self.last_dividend, price)
    ELSE IF self.stock_type = "StockType.PREFERRED"
         THEN IF self.fixed_dividend = None \/ self.fixed_dividend.n <= 0
              THEN ValueError
              ELSE Div(Mul(self.fixed_dividend, self.par_value), price)
    ELSE None

\* pe_ratio without the test for a zero dividend
pe_ratio_unguarded(self, price) ==
    LET dividend == dividend_yield(self, price)
    IN  IF IsError(dividend) THEN dividend
        ELSE IF dividend = None THEN TypeError
        ELSE Div(price, dividend)

\* StockData.pe_ratio
pe_ratio(self, price) ==
    LET dividend == dividend_yield(self, price)
    IN  IF IsError(dividend) THEN dividend
        ELSE IF dividend = None THEN TypeError
        ELSE IF dividend.n = 0 THEN None
        ELSE Div(price, dividend)


\* `indicator in TradeType` (EnumMeta.__contains__): a member is contained; for
\* a value that is not a member the interpreter decides.  Up to Python 3.7 the
\* test is False, from 3.8 to 3.11 it raises TypeError, from 3.12 on it is
\* True exactly when the value equals the value of a member.
InTradeType(indicator) ==
    IF indicator \in TradeType THEN "True"
    ELSE IF enumSemantics = "legacy" THEN "False"
    ELSE IF enumSemantics = "strict" THEN "TypeError"
    ELSE IF indicator \in TradeTypeValues THEN "True" ELSE "False"

\* record_trade putting the new trade in front of the list
record_trade_insert_first(self, quantity, price, indicator, now) ==
    IF quantity <= 0 THEN [out |-> ValueError, trades |-> self.trades]
    ELSE IF price <= 0 THEN [out |-> ValueError, trades |-> self.trades]
    ELSE IF InTradeType(indicator) = "TypeError"
         THEN [out |-> TypeError, trades |-> self.trades]
    ELSE IF InTradeType(indicator) = "False"
         THEN [out |-> ValueError, trades |-> self.trades]
    ELSE [out |-> None,
          trades |-> <<[timestamp |-> now, quantity |-> quantity,
                        price |-> price, indicator |-> indicator]>> \o self.trades]

\* record_trade appending the trade before it checks the indicator
record_trade_append_first(self, quantity, price, indicator, now) ==
    LET appended == Append(self.trades,
                           [timestamp |-> now, quantity |-> quantity,
                            price |-> price, indicator |-> indicator])
    IN  IF quantity <= 0 THEN [out |-> ValueError, trades |-> self.trades]
        ELSE IF price <= 0 THEN [out |-> ValueError, trades |-> self.trades]
        ELSE IF InTradeType(indicator) = "TypeError"
             THEN [out |-> TypeError, trades |-> appended]
        ELSE IF InTradeType(indicator) = "False"
             THEN [out |-> ValueError, trades |-> appended]
        ELSE [out |-> None, trades |-> appended]

\* StockData.record_trade: the value returned or raised, and self.trades afterwards
record_trade(self, quantity, price, indicator, now) ==
    IF quantity <= 0 THEN [out |-> ValueError, trades |-> self.trades]
    ELSE IF price <= 0 THEN [out |-> ValueError, trades |-> self.trades]
    ELSE IF InTradeType(indicator) = "TypeError"
         THEN [out |-> TypeError, trades |-> self.trades]
    ELSE IF InTradeType(indicator) = "False"
         THEN [out |-> ValueError, trades |-> self.trades]
    ELSE [out |-> None,
          trades |-> Append(self.trades,
                            [timestamp |-> now, quantity |-> quantity,
                             price |-> price, indicator |-> indicator])]

\* sum(...) over a list
RECURSIVE Sum(_)
Sum(xs) == IF xs = <<>> THEN 0 ELSE Head(xs) + Sum(Tail(xs))

\* the comparison made strict: trade['timestamp'] > fifteen_minutes_ago
WithinWindow_strict(trade, fifteen_minutes_ago) == trade.timestamp > fifteen_minutes_ago

\* trade['timestamp'] >= fifteen_minutes_ago
WithinWindow(trade, fifteen_minutes_ago) == trade.timestamp >= fifteen_minutes_ago

\* volume_weighted_stock_price taking its sums over self.trades instead of
\* trades_within_15_minutes
volume_weighted_stock_price_unfiltered(self, now) ==
    LET fifteen_minutes_ago == now - FifteenMinutes
        trades_within_15_minutes ==
            SelectSeq(self.trades, LAMBDA trade : WithinWindow(trade, fifteen_minutes_ago))
        total_value ==
            Sum([i \in 1..Len(self.trades) |-> self.trades[i].price * self.trades[i].quantity])
        total_quantity ==
            Sum([i \in 1..Len(self.trades) |-> self.trades[i].quantity])
    IN  [out |-> IF trades_within_15_minutes = <<>> THEN None
                 ELSE IF total_quantity = 0 THEN ZeroDivisionError
                 ELSE Float(total_value, total_quantity),
         trades |-> self.trades]

\* volume_weighted_stock_price keeping only the filtered trades in the ledger:
\* self.trades = trades_within_15_minutes
volume_weighted_stock_price_purging(self, now) ==
    LET fifteen_minutes_ago == now - FifteenMinutes
        trades_within_15_minutes ==
            SelectSeq(self.trades, LAMBDA trade : WithinWindow(trade, fifteen_minutes_ago))
        total_value ==
            Sum([i \in 1..Len(trades_within_15_minutes) |->
                    trades_within_15_minutes[i].price * trades_within_15_minutes[i].quantity])
        total_quantity ==
            Sum([i \in 1..Len(trades_within_15_minutes) |->
                    trades_within_15_minutes[i].quantity])
    IN  [out |-> IF trades_within_15_minutes = <<>> THEN None
                 ELSE IF total_quantity = 0 THEN ZeroDivisionError
                 ELSE Float(total_value, total_quantity),
         trades |-> trades_within_15_minutes]

\* StockData.volume_weighted_stock_price, datetime.now() being `now`: the value
\* returned, and self.trades afterwards (the method assigns nothing)
volume_weighted_stock_price(self, now) ==
    LET fifteen_minutes_ago == now - FifteenMinutes
        trades_within_15_minutes ==
            SelectSeq(self.trades, LAMBDA trade : WithinWindow(trade, fifteen_minutes_ago))
        total_value ==
            Sum([i \in 1..Len(trades_within_15_minutes) |->
                    trades_within_15_minutes[i].price * trades_within_15_minutes[i].quantity])
        total_quantity ==
            Sum([i \in 1..Len(trades_within_15_minutes) |->
                    trades_within_15_minutes[i].quantity])
    IN  [out |-> IF trades_within_15_minutes = <<>> THEN None
                 ELSE IF total_quantity = 0 THEN ZeroDivisionError
                 ELSE Float(total_value, total_quantity),
         trades |-> self.trades]

----------------------------------------------------------------------------
(* GBCECalculator *)

\* reduce(mul, prices, 1)
RECURSIVE Product(_)
Product(xs) == IF xs = <<>> THEN 1 ELSE Head(xs) * Product(Tail(xs))

RECURSIVE Exp(_, _)
Exp(b, e) == IF e = 0 THEN 1 ELSE b * Exp(b, e - 1)

\* product ** (1.0 / n) for a product >= 1: the float when the root is a whole
\* number, and otherwise the irrational root as the value [t |-> "root"]
\* of the radicand n and the index d
Root(product, n) ==
    IF \E k \in 1..product : Exp(k, n) = product
    THEN Float(CHOOSE k \in 1..product : Exp(k, n) = product, 1)
    ELSE [t |-> "root", n |-> product, d |-> n]

\* the price of the first trade instead of the last: stock.trades[0]['price']
LastPrice_first(stock) == stock.trades[1].price

\* the price of the most recently recorded trade: stock.trades[-1]['price']
LastPrice(stock) == stock.trades[Len(stock.trades)].price

\* GBCECalculator.calculate_gbce_all_share_index
calculate_gbce_all_share_index(stock_data) ==
    IF stock_data = <<>> THEN None
    ELSE LET valid_stocks == SelectSeq(stock_data, LAMBDA stock : stock.trades # <<>>)
             prices == [i \in 1..Len(valid_stocks) |-> LastPrice(valid_stocks[i])]
             product == Product(prices)
         IN  IF valid_stocks = <<>> THEN None
             ELSE Root(product, Len(valid_stocks))


----------------------------------------------------------------------------
(* Inputs of the calls *)

\* quantity and price arguments of record_trade
Quantities == {-1, 0, 1, 2}
TradePrices == {-1, 0, 2, 4}
\* indicator arguments: the two members, and strings that are not members
Indicators == TradeType \cup {"BUY", "INVALID"}
\* a selection of the argument triples above
TradeArgs ==
    {<<1, 2, "TradeType.BUY">>, <<2, 4, "TradeType.SELL">>, <<2, 2, "BUY">>,
     <<0, 2, "TradeType.BUY">>, <<1, 0, "TradeType.SELL">>, <<1, 2, "INVALID">>}

\* price arguments of dividend_yield and pe_ratio
YieldPrices == {-1, 0, 2, 100}

\* constructor arguments
LastDividends == {None, Float(-1, 1), Float(0, 1), Float(8, 1)}
FixedDividends == {None, Float(-1, 50), Float(0, 1), Float(1, 50)}
ParValues == {Float(0, 1), Float(60, 1), Float(100, 1)}

\* the lists of records handed to the index calculator
RecordLists == UNION {[1..k -> Symbols] : k \in 0..MaxRecords}

----------------------------------------------------------------------------
(* The calls.  A call is recorded with its operation, the stocks it is made *)
(* on, its arguments, the clock when it is made and what it returns or     *)
(* raises.                                                                 *)

Call(op, recs, quantity, price, indicator, now, out) ==
    [op |-> op, recs |-> recs, quantity |-> quantity, price |-> price,
     indicator |-> indicator, now |-> now, out |-> out]

NoCall == Call("none", <<>>, 0, 0, "", 0, None)
\* memo when no call is kept for comparison at all
Off == Call("off", <<>>, 0, 0, "", 0, None)

\* the session of main(): the prompt it stands at, the message it printed
\* last, and the answers of the interaction under way (the stock type and the
\* dividend while the stock is being asked for; the text typed as quantity,
\* the quantity and the price while a trade is being asked for).
\* Here the core used as a library, without main().
NoShell ==
    [pc |-> "off", shown |-> "", stock_type |-> "", dividend |-> None,
     typed |-> "", quantity |-> 0, price |-> 0]

\* TEA and GIN as the tests construct them
Fixtures ==
    [s \in Symbols |->
        IF s = "TEA"
        THEN StockData("StockType.COMMON", Float(0, 1), None, Float(100, 1))
        ELSE StockData("StockType.PREFERRED", Float(8, 1), Float(1, 50), Float(100, 1))]

\* len(stock.trades) summed over the stocks
RECURSIVE TotalTrades(_)
TotalTrades(S) ==
    IF S = {} THEN 0
    ELSE LET s == CHOOSE x \in S : TRUE
         IN  Len(stocks[s].trades) + TotalTrades(S \ {s})

Init ==
    /\ enumSemantics \in {"legacy", "strict", "byvalue"}
    /\ clock = 0
    /\ stocks = Fixtures
    /\ ret = NoCall
    /\ memo = Off
    /\ shell = NoShell

\* time passes between two calls
Tick(d) ==
    /\ clock + d <= MaxClock
    /\ clock' = clock + d
    /\ UNCHANGED <<enumSemantics, stocks, ret, memo, shell>>

\* a read-only call is or is not the one kept for later comparison
Remember == memo' \in (IF memo = Off THEN {Off} ELSE {memo, ret'})

DividendYieldCall(s, price) ==
    /\ ret' = Call("dividend_yield", <<s>>, 0, price, "", clock,
                   dividend_yield(stocks[s], Float(price, 1)))
    /\ Remember
    /\ UNCHANGED <<enumSemantics, clock, stocks, shell>>

PeRatioCall(s, price) ==
    /\ ret' = Call("pe_ratio", <<s>>, 0, price, "", clock,
                   pe_ratio(stocks[s], Float(price, 1)))
    /\ Remember
    /\ UNCHANGED <<enumSemantics, clock, stocks, shell>>

RecordTradeCall(s, quantity, price, indicator) ==
    /\ TotalTrades(Symbols) < MaxTrades
    /\ LET r == record_trade(stocks[s], quantity, price, indicator, clock)
       IN  /\ stocks' = [stocks EXCEPT ![s].trades = r.trades]
           /\ ret' = Call("record_trade", <<s>>, quantity, price, indicator, clock, r.out)
           \* a call kept for comparison is dropped when the ledger changes
           /\ memo' = IF r.out = None /\ memo # Off THEN NoCall ELSE memo
    /\ UNCHANGED <<enumSemantics, clock, shell>>

VolumeWeightedCall(s) ==
    /\ LET r == volume_weighted_stock_price(stocks[s], clock)
       IN  /\ ret' = Call("volume_weighted_stock_price", <<s>>, 0, 0, "", clock, r.out)
           /\ stocks' = [stocks EXCEPT ![s].trades = r.trades]
    /\ Remember
    /\ UNCHANGED <<enumSemantics, clock, shell>>

GbceCall(recs) ==
    /\ ret' = Call("calculate_gbce_all_share_index", recs, 0, 0, "", clock,
                   calculate_gbce_all_share_index([i \in 1..Len(recs) |-> stocks[recs[i]]]))
    /\ Remember
    /\ UNCHANGED <<enumSemantics, clock, stocks, shell>>

Next ==
    \/ \E d \in TickMinutes : Tick(d)
    \/ \E s \in Symbols, price \in {0, 100} : DividendYieldCall(s, price)
    \/ \E s \in Symbols, price \in {0, 100} : PeRatioCall(s, price)
    \/ \E s \in Symbols, a \in TradeArgs : RecordTradeCall(s, a[1], a[2], a[3])
    \/ \E s \in Symbols : VolumeWeightedCall(s)
    \/ \E recs \in RecordLists : GbceCall(recs)

Spec == Init /\ [][Next]_vars

\* Trade recording alone, over every combination of arguments
NextTrade ==
    \E quantity \in Quantities, price \in TradePrices, indicator \in Indicators :
        RecordTradeCall("TEA", quantity, price, indicator)

SpecTrade == Init /\ [][NextTrade]_vars

\* The yield calculations over every combination of constructor arguments
InitYield ==
    /\ enumSemantics \in {"legacy", "strict", "byvalue"}
    /\ clock = 0
    /\ \E stock_type \in StockType, last_dividend \in LastDividends,
          fixed_dividend \in FixedDividends, par_value \in ParValues :
            stocks = [Fixtures EXCEPT !["TEA"] =
                        StockData(stock_type, last_dividend, fixed_dividend, par_value)]
    /\ ret = NoCall
    /\ memo = Off
    /\ shell = NoShell

NextYield ==
    \/ \E s \in Symbols, price \in YieldPrices : DividendYieldCall(s, price)
    \/ \E s \in Symbols, price \in YieldPrices : PeRatioCall(s, price)

SpecYield == InitYield /\ [][NextYield]_vars

\* Repeated read-only calls, one of the earlier calls being kept in memo
InitRepeat ==
    /\ enumSemantics \in {"legacy", "strict", "byvalue"}
    /\ clock = 0
    /\ stocks = Fixtures
    /\ ret = NoCall
    /\ memo = NoCall
    /\ shell = NoShell

NextRepeat ==
    \/ \E d \in TickMinutes : Tick(d)
    \/ DividendYieldCall("GIN", 100)
    \/ PeRatioCall("GIN", 100)
    \/ \E a \in TradeArgs : RecordTradeCall("TEA", a[1], a[2], a[3])
    \/ VolumeWeightedCall("TEA")
    \/ \E recs \in {<<>>, <<"TEA">>, <<"GIN", "TEA">>} : GbceCall(recs)

SpecRepeat == InitRepeat /\ [][NextRepeat]_vars

TypeOK ==
    /\ clock \in 0..MaxClock
    /\ TotalTrades(Symbols) <= MaxTrades

----------------------------------------------------------------------------
(* Properties of record_trade *)

\* a step is a call when it records a call or changes a ledger
IsCallStep == <<ret, stocks>>' # <<ret, stocks>>

\* C1: a record_trade call with quantity > 0, price > 0 and a side that is one
\* of the members BUY and SELL returns normally and extends the ledger of its
\* stock by exactly one entry: the earlier entries keep their place and
\* content, the new last entry has the given quantity, price and side, and the
\* ledgers of the other stocks stay as they are.
C1_ValidTradeIsAppended ==
    [][ (/\ IsCallStep
         /\ ret'.op = "record_trade"
         /\ ret'.quantity > 0 /\ ret'.price > 0 /\ ret'.indicator \in TradeType)
        => LET s == ret'.recs[1]
               before == stocks[s].trades
               after == stocks'[s].trades
           IN  /\ ret'.out = None
               /\ Len(after) = Len(before) + 1
               /\ \A i \in 1..Len(before) : after[i] = before[i]
               /\ after[Len(after)].quantity = ret'.quantity
               /\ after[Len(after)].price = ret'.price
               /\ after[Len(after)].indicator = ret'.indicator
               /\ \A o \in Symbols \ {s} : stocks'[o] = stocks[o] ]_vars

\* a valid trade has been appended to a ledger that already held a different one
C1_Witness ==
    /\ ret.op = "record_trade" /\ ret.out = None /\ ret.indicator \in TradeType
    /\ LET tr == stocks[ret.recs[1]].trades
       IN  /\ Len(tr) >= 2
           /\ tr[Len(tr)].quantity = ret.quantity
           /\ tr[1] # tr[Len(tr)]

\* C2: record_trade raises ValueError whenever quantity <= 0, or price <= 0, or
\* the side is not one of the members BUY and SELL of TradeType; it never
\* succeeds on such arguments.
C2_InvalidTradeRaisesValueError ==
    (/\ ret.op = "record_trade"
     /\ (ret.quantity <= 0 \/ ret.price <= 0 \/ ret.indicator \notin TradeType))
    => ret.out = ValueError

----------------------------------------------------------------------------
(* Properties of volume_weighted_stock_price *)

\* the sum of f[i] over the indices i in I
RECURSIVE SumOver(_, _)
SumOver(f, I) ==
    IF I = {} THEN 0
    ELSE LET i == CHOOSE x \in I : TRUE IN f[i] + SumOver(f, I \ {i})

\* the entries of a ledger that are not older than 15 minutes at time now
Recent(tr, now) == {i \in 1..Len(tr) : tr[i].timestamp >= now - 15}

\* the float v is num / den
IsQuotient(v, num, den) == IsFloat(v) /\ v.n * den = v.d * num

\* C3: volume_weighted_stock_price evaluated at time now returns None exactly
\* when no ledger entry has timestamp >= now - 15 minutes; otherwise it returns
\* sum(price * quantity) / sum(quantity) over exactly the entries with
\* timestamp >= now - 15 minutes, buy and sell trades alike.
C3_VolumeWeightedPrice ==
    ret.op = "volume_weighted_stock_price"
    => LET tr == stocks[ret.recs[1]].trades
           I == Recent(tr, ret.now)
           value == SumOver([i \in 1..Len(tr) |-> tr[i].price * tr[i].quantity], I)
           volume == SumOver([i \in 1..Len(tr) |-> tr[i].quantity], I)
       IN  /\ (ret.out = None) <=> (I = {})
           /\ I # {} => IsQuotient(ret.out, value, volume)

\* a price was computed over a buy and a sell of different price and quantity,
\* one of them exactly 15 minutes old
C3_Witness ==
    /\ ret.op = "volume_weighted_stock_price"
    /\ IsFloat(ret.out)
    /\ LET tr == stocks[ret.recs[1]].trades
       IN  \E i, j \in Recent(tr, ret.now) :
              /\ tr[i].timestamp = ret.now - 15
              /\ tr[i].indicator = "TradeType.BUY" /\ tr[j].indicator = "TradeType.SELL"
              /\ tr[i].price # tr[j].price /\ tr[i].quantity # tr[j].quantity

\* the ledger of the stock of the latest call holds exactly two trades, one
\* stamped t and one stamped t - 15 minutes, t being a clock reading not later
\* than the call
TwoTradesQuarterHourApart(t) ==
    LET tr == stocks[ret.recs[1]].trades
    IN  /\ Len(tr) = 2
        /\ \E i, j \in 1..2 : tr[i].timestamp = t /\ tr[j].timestamp = t - 15
        /\ t <= ret.now

\* the quantity-weighted average of the prices of all trades of a ledger
AverageOfAll(v, tr) ==
    IsQuotient(v, SumOver([i \in 1..Len(tr) |-> tr[i].price * tr[i].quantity], 1..Len(tr)),
                  SumOver([i \in 1..Len(tr) |-> tr[i].quantity], 1..Len(tr)))

----------------------------------------------------------------------------
(* Repeated calls *)

ReadOnlyOps ==
    {"dividend_yield", "pe_ratio", "volume_weighted_stock_price",
     "calculate_gbce_all_share_index"}

\* the latest call repeats the call kept in memo: the same read-only operation
\* on the same records with the same price argument, no trade having been
\* recorded since
RepeatsMemo ==
    /\ memo.op \in ReadOnlyOps
    /\ ret.op = memo.op /\ ret.recs = memo.recs /\ ret.price = memo.price

\* C5 as stated: two calls of the same read-only operation with the same
\* arguments, no trade being recorded between them, return the same value or
\* the same error, whatever else happens between them.
C5_RepeatedCallsAgree == RepeatsMemo => ret.out = memo.out

\* C5 amended: two calls of dividend_yield or of pe_ratio with the same price,
\* and two calls of calculate_gbce_all_share_index on the same records, no
\* trade being recorded between them, return the same value or the same
\* error; two such calls of volume_weighted_stock_price do so when they are
\* made at the same clock reading.
C5_RepeatedCallsAgreeAtSameTime ==
    (/\ RepeatsMemo
     /\ ret.op = "volume_weighted_stock_price" => ret.now = memo.now)
    => ret.out = memo.out

\* the index was computed twice, the second time later than the first, with
\* another operation called and time passing in between
C5_Witness ==
    /\ RepeatsMemo
    /\ ret.op = "calculate_gbce_all_share_index"
    /\ IsFloat(ret.out)
    /\ ret.now > memo.now

----------------------------------------------------------------------------
(* Properties of calculate_gbce_all_share_index *)

\* the product of f[i] over the indices i in I
RECURSIVE ProductOver(_, _)
ProductOver(f, I) ==
    IF I = {} THEN 1
    ELSE LET i == CHOOSE x \in I : TRUE IN f[i] * ProductOver(f, I \ {i})

\* the positions of the list of records whose ledger is not empty
Qualifying(recs) == {i \in 1..Len(recs) : stocks[recs[i]].trades # <<>>}

\* the price of the last entry of the ledger of the record at position i
LastTradePrice(recs, i) ==
    LET tr == stocks[recs[i]].trades IN tr[Len(tr)].price

\* v is the n-th root of p: a whole number whose n-th power is p, or the
\* irrational root of p
IsNthRoot(v, p, n) ==
    \/ IsFloat(v) /\ v.d = 1 /\ v.n > 0 /\ Exp(v.n, n) = p
    \/ v.t = "root" /\ v.n = p /\ v.d = n /\ \A k \in 1..p : Exp(k, n) # p

\* C6: calculate_gbce_all_share_index returns None exactly when no record of
\* its input has a non-empty ledger (the empty input included); otherwise it
\* returns the n-th root of the product of the price of the last trade of each
\* record with a non-empty ledger, n being the number of such records; for a
\* single such record that is the record's last trade price.
C6_GeometricMeanOfLastPrices ==
    ret.op = "calculate_gbce_all_share_index"
    => LET Q == Qualifying(ret.recs)
           n == Cardinality(Q)
           p == ProductOver([i \in 1..Len(ret.recs) |->
                               IF i \in Q THEN LastTradePrice(ret.recs, i) ELSE 1], Q)
       IN  /\ (ret.out = None) <=> (Q = {})
           /\ Q # {} => IsNthRoot(ret.out, p, n)
           /\ \A i \in Q : n = 1 => ret.out = Float(LastTradePrice(ret.recs, i), 1)

\* the index was computed over two records with different last trade prices
C6_Witness ==
    /\ ret.op = "calculate_gbce_all_share_index"
    /\ ret.out # None
    /\ \E i, j \in Qualifying(ret.recs) :
          /\ ret.recs[i] # ret.recs[j]
          /\ LastTradePrice(ret.recs, i) # LastTradePrice(ret.recs, j)

----------------------------------------------------------------------------
(* Properties of dividend_yield and pe_ratio *)

\* C7: whenever dividend_yield(price) succeeds, pe_ratio(price) returns None
\* if and only if that yield is exactly 0, and otherwise returns
\* price / yield; a Common stock with last dividend 0 has an undefined P/E at
\* every positive price, and pe_ratio never divides by zero.
C7_PeRatioUndefinedIffZeroYield ==
    ret.op = "pe_ratio"
    => LET stock == stocks[ret.recs[1]]
           yield == dividend_yield(stock, Float(ret.price, 1))
       IN  /\ IsFloat(yield)
                => /\ (ret.out = None) <=> (yield.n = 0)
                   /\ yield.n # 0 => IsQuotient(ret.out, ret.price * yield.d, yield.n)
           /\ (/\ stock.stock_type = "StockType.COMMON"
               /\ stock.last_dividend = Float(0, 1)
               /\ ret.price > 0) => ret.out = None
           /\ ret.out # ZeroDivisionError

\* the P/E of a stock whose yield is zero at a positive price was asked for
C7_Witness ==
    /\ ret.op = "pe_ratio"
    /\ ret.price > 0
    /\ dividend_yield(stocks[ret.recs[1]], Float(ret.price, 1)) = Float(0, 1)
    /\ ret.out = None

\* C8: dividend_yield(price) raises ValueError for every price <= 0, for Common
\* and Preferred stocks and whatever the last dividend, the fixed dividend
\* rate and the par value are; pe_ratio(price) raises the same error instead
\* of returning None.
C8_NonPositivePriceRaisesValueError ==
    (ret.op \in {"dividend_yield", "pe_ratio"} /\ ret.price <= 0)
    => ret.out = ValueError

\* the P/E at price 0 was asked of a stock whose yield is defined at every
\* positive price
C8_Witness ==
    /\ ret.op = "pe_ratio"
    /\ ret.price = 0
    /\ ret.out = ValueError
    /\ IsFloat(dividend_yield(stocks[ret.recs[1]], Float(1, 1)))

C10_PreferredYield ==
    (/\ ret.op = "dividend_yield"
     /\ ret.price > 0
     /\ stocks[ret.recs[1]].stock_type = "StockType.PREFERRED")
    => LET r == stocks[ret.recs[1]].fixed_dividend
           par == stocks[ret.recs[1]].par_value
       IN  IF r # None /\ r.n > 0
           THEN IsQuotient(ret.out, r.n * par.n, r.d * par.d * ret.price)
           ELSE ret.out = ValueError

\* the yield of a Preferred stock without a last dividend was computed from a
\* rate and a par value, and is not the rate over the price
C10_Witness ==
    /\ ret.op = "dividend_yield"
    /\ ret.price > 0
    /\ stocks[ret.recs[1]].stock_type = "StockType.PREFERRED"
    /\ stocks[ret.recs[1]].last_dividend = None
    /\ IsFloat(ret.out) /\ ret.out.n # 0
    /\ ret.out # Div(stocks[ret.recs[1]].fixed_dividend, Float(ret.price, 1))

----------------------------------------------------------------------------
(* Properties of the ledger *)

\* the list a is an initial part of the list b
IsPrefix(a, b) == Len(a) <= Len(b) /\ \A i \in 1..Len(a) : a[i] = b[i]

\* C11: record_trade is the only mutation.  A step that ends with a call of
\* dividend_yield, pe_ratio, volume_weighted_stock_price or
\* calculate_gbce_all_share_index as the latest call, whatever that call
\* returned or raised, leaves every record as it was; no step changes a static
\* attribute or removes a ledger entry, so that each earlier ledger is an
\* initial part of every later one.
C11_OnlyRecordTradeMutates ==
    [][ /\ ret'.op \in ReadOnlyOps => stocks' = stocks
        /\ \A s \in Symbols :
              /\ stocks'[s].stock_type = stocks[s].stock_type
              /\ stocks'[s].last_dividend = stocks[s].last_dividend
              /\ stocks'[s].fixed_dividend = stocks[s].fixed_dividend
              /\ stocks'[s].par_value = stocks[s].par_value
              /\ IsPrefix(stocks[s].trades, stocks'[s].trades) ]_vars

\* volume_weighted_stock_price found every trade of its ledger older than 15
\* minutes, and the trades are still there
C11_Witness ==
    /\ ret.op = "volume_weighted_stock_price"
    /\ ret.out = None
    /\ Len(stocks[ret.recs[1]].trades) = 2

C15_RejectedTradeChangesNothing ==
    [][ (ret'.op = "record_trade" /\ IsError(ret'.out)) => stocks' = stocks ]_vars

\* a call was rejected for its side alone, on a ledger that holds a trade
C15_Witness ==
    /\ ret.op = "record_trade" /\ IsError(ret.out)
    /\ ret.quantity > 0 /\ ret.price > 0 /\ ret.indicator \notin TradeType
    /\ stocks[ret.recs[1]].trades # <<>>

\* C16: in every reachable state every ledger entry has quantity > 0,
\* price > 0 and a side that is one of the members BUY and SELL; the total
\* quantity of the trades is positive and volume_weighted_stock_price does not
\* divide by zero.
C16_LedgerEntriesAreValid ==
    \A s \in Symbols :
        LET tr == stocks[s].trades
        IN  /\ \A i \in 1..Len(tr) :
                  tr[i].quantity > 0 /\ tr[i].price > 0 /\ tr[i].indicator \in TradeType
            /\ tr # <<>> => SumOver([i \in 1..Len(tr) |-> tr[i].quantity], 1..Len(tr)) > 0
            /\ \A now \in 0..MaxClock :
                  volume_weighted_stock_price(stocks[s], now).out # ZeroDivisionError

----------------------------------------------------------------------------
(* The interactive shell: src/src/user_interactions.py and src/main.py.    *)
(* The session stops at every input(); a step is one text typed at the     *)
(* prompt it stands at, with everything the program does up to the next    *)
(* prompt.  The session prints what its calls return or raise (shown); ret  *)
(* and memo, which record the calls made on the library directly, stay.    *)

\* the one stock of the session: main() constructs a single StockData
SessionStock == "TEA"

\* the texts int() converts, with their values; int() of any other text
\* raises ValueError
IntLiterals == {<<"-1", -1>>, <<"0", 0>>, <<"1", 1>>}
\* the texts float() converts, with their values
FloatLiterals ==
    {<<"-1", Float(-1, 1)>>, <<"0", Float(0, 1)>>, <<"0.02", Float(1, 50)>>,
     <<"2", Float(2, 1)>>, <<"100", Float(100, 1)>>}
\* str.upper() of the texts that have a lower-case letter
UpperCase ==
    {<<"common", "COMMON">>, <<"preferred", "PREFERRED">>, <<"buy", "BUY">>,
     <<"sell", "SELL">>, <<"y", "Y">>, <<"n", "N">>, <<"abc", "ABC">>}

\* the texts typed at the prompts
TypeTexts == {"common", "PREFERRED", "abc"}
DividendTexts == {"abc", "-1", "0", "0.02"}
ParTexts == {"abc", "-1", "0", "100"}
QuantityTexts == {"abc", "0.02", "-1", "0", "1"}
PriceTexts == {"abc", "-1", "0", "2"}
IndicatorTexts == {"buy", "SELL", "abc"}
ChoiceTexts == {"1", "2", "3", "4", "5", "6", "abc"}
ContinueTexts == {"y", "Y", "n", "abc"}

\* int(text)
int(text) ==
    IF \E l \in IntLiterals : l[1] = text
    THEN [t |-> "int", n |-> (CHOOSE l \in IntLiterals : l[1] = text)[2], d |-> 1]
    ELSE ValueError

\* float(text)
float(text) ==
    IF \E l \in FloatLiterals : l[1] = text
    THEN (CHOOSE l \in FloatLiterals : l[1] = text)[2]
    ELSE ValueError

\* text.upper()
upper(text) ==
    IF \E l \in UpperCase : l[1] = text
    THEN (CHOOSE l \in UpperCase : l[1] = text)[2]
    ELSE text

\* the session at the prompt pc, m being the message printed on the way there
Shown(pc, m) == [shell EXCEPT !.pc = pc, !.shown = m]

\* main() has asked for the symbol and asks for the type of the stock
InitShell ==
    /\ enumSemantics \in {"legacy", "strict", "byvalue"}
    /\ clock = 0
    /\ stocks = Fixtures
    /\ ret = NoCall
    /\ memo = Off
    /\ shell = [NoShell EXCEPT !.pc = "stock_type"]

\* get_stock_data_from_user: the loop on the type of the stock
AnswerStockType(text) ==
    /\ shell.pc = "stock_type"
    /\ shell' = IF upper(text) \in {"COMMON", "PREFERRED"}
                THEN [shell EXCEPT !.pc = "dividend",
                                   !.stock_type = IF upper(text) = "COMMON"
                                                  THEN "StockType.COMMON"
                                                  ELSE "StockType.PREFERRED"]
                ELSE Shown("stock_type", "Invalid stock type. Please enter COMMON or PREFERRED.")
    /\ UNCHANGED <<enumSemantics, clock, stocks, ret, memo>>

\* get_stock_data_from_user: the loop on the last dividend of a Common stock
\* and the one on the fixed dividend of a Preferred stock, which accept the
\* same values
AnswerDividend(text) ==
    /\ shell.pc = "dividend"
    /\ LET value == float(text)
       IN  shell' = IF value = ValueError
                    THEN Shown("dividend", "Invalid input. Please enter a valid number.")
                    ELSE IF value.n < 0
                    THEN Shown("dividend", "must not be negative.")
                    ELSE [shell EXCEPT !.pc = "par_value", !.dividend = value]
    /\ UNCHANGED <<enumSemantics, clock, stocks, ret, memo>>

\* get_stock_data_from_user: the loop on the par value; then main() constructs
\* the StockData and shows the menu
AnswerParValue(text) ==
    /\ shell.pc = "par_value"
    /\ LET value == float(text)
       IN  IF value = ValueError
           THEN /\ shell' = Shown("par_value", "Invalid input. Please enter a valid number.")
                /\ UNCHANGED stocks
           ELSE IF value.n <= 0
           THEN /\ shell' = Shown("par_value", "Par value must be above zero.")
                /\ UNCHANGED stocks
           ELSE /\ stocks' = [stocks EXCEPT ![SessionStock] =
                                StockData(shell.stock_type,
                                          IF shell.stock_type = "StockType.COMMON"
                                          THEN shell.dividend ELSE None,
                                          IF shell.stock_type = "StockType.PREFERRED"
                                          THEN shell.dividend ELSE None,
                                          value)]
                /\ shell' = [NoShell EXCEPT !.pc = "menu",
                                             !.shown = "Select an operation:"]
    /\ UNCHANGED <<enumSemantics, clock, ret, memo>>

\* the end of an interaction, its locals gone: "\nError:" is printed for an
\* exception the interaction catches, any other exception ends the program
\* with a traceback, and m is printed for a result
Presented(out, caught, m) ==
    [shell EXCEPT !.pc = IF IsError(out) /\ out \notin caught THEN "crashed"
                         ELSE "continue",
                  !.shown = IF out \in caught THEN "Error"
                            ELSE IF IsError(out) THEN "Traceback" ELSE m,
                  !.quantity = 0, !.price = 0]

\* main: the choice typed at the menu.  "4" and "5" run their interaction to
\* its end, "1", "2" and "3" run theirs up to its first prompt, "6" calls
\* exit, any other text is an invalid choice.
Choose(choice) ==
    /\ shell.pc = "menu"
    /\ IF choice = "1" THEN
            /\ shell' = Shown("dividend_yield_price", "")
            /\ UNCHANGED stocks
       ELSE IF choice = "2" THEN
            /\ shell' = Shown("pe_ratio_price", "")
            /\ UNCHANGED stocks
       ELSE IF choice = "3" THEN
            /\ shell' = Shown("quantity", "")
            /\ UNCHANGED stocks
       ELSE IF choice = "4" THEN
            LET r == volume_weighted_stock_price(stocks[SessionStock], clock)
            IN  /\ stocks' = [stocks EXCEPT ![SessionStock].trades = r.trades]
                /\ shell' = Presented(r.out, {},
                                       IF r.out # None
                                       THEN "Volume-weighted Stock Price:"
                                       ELSE "No trades within the last 15 minutes.")
       ELSE IF choice = "5" THEN
            LET result == calculate_gbce_all_share_index(<<stocks[SessionStock]>>)
            IN  /\ shell' = Presented(result, {},
                                       IF result # None
                                       THEN "GBCE All Share Index:"
                                       ELSE "No valid stocks with trades.")
                /\ UNCHANGED stocks
       ELSE IF choice = "6" THEN
            /\ shell' = Shown("exited", "")
            /\ UNCHANGED stocks
       ELSE /\ shell' = Shown("continue", "Invalid choice. Please enter a number between 1 and 6.")
            /\ UNCHANGED stocks
    /\ UNCHANGED <<enumSemantics, clock, ret, memo>>

\* dividend_yield_interaction and pe_ratio_interaction from the price prompt on
AnswerYieldPrice(text) ==
    /\ shell.pc \in {"dividend_yield_price", "pe_ratio_price"}
    /\ LET price == float(text)
       IN  IF price = ValueError
           THEN shell' = Shown(shell.pc, "Invalid input. Please enter a valid number.")
           ELSE IF shell.pc = "dividend_yield_price"
           THEN shell' = Presented(dividend_yield(stocks[SessionStock], price),
                                   {ValueError}, "Dividend Yield:")
           ELSE LET result == pe_ratio(stocks[SessionStock], price)
                IN  shell' = Presented(result, {ValueError},
                                IF result # None THEN "P/E Ratio:"
                                ELSE "P/E Ratio cannot be calculated because dividend is zero.")
    /\ UNCHANGED <<enumSemantics, clock, stocks, ret, memo>>

\* record_trade_interaction with int(...) ahead of the try: a text that is no
\* integer ends the program
AnswerQuantity_outside_try(text) ==
    /\ shell.pc = "quantity"
    /\ LET quantity == int(text)
       IN  shell' = IF quantity = ValueError
                    THEN [Shown("crashed", "Traceback") EXCEPT !.typed = text]
                    ELSE [shell EXCEPT !.pc = "price", !.typed = text,
                                       !.quantity = quantity.n]
    /\ UNCHANGED <<enumSemantics, clock, stocks, ret, memo>>

\* record_trade_interaction: the quantity prompt, int(...) inside the try
AnswerQuantity(text) ==
    /\ shell.pc = "quantity"
    /\ LET quantity == int(text)
       IN  shell' = IF quantity = ValueError
                    THEN [Shown("continue", "Error") EXCEPT !.typed = text]
                    ELSE [shell EXCEPT !.pc = "price", !.typed = text,
                                       !.quantity = quantity.n]
    /\ UNCHANGED <<enumSemantics, clock, stocks, ret, memo>>

\* record_trade_interaction: the price prompt, get_float_input
AnswerTradePrice(text) ==
    /\ shell.pc = "price"
    /\ LET price == float(text)
       IN  shell' = IF price = ValueError
                    THEN Shown("price", "Invalid input. Please enter a valid number.")
                    ELSE [shell EXCEPT !.pc = "indicator", !.price = price.n]
    /\ UNCHANGED <<enumSemantics, clock, stocks, ret, memo>>

\* record_trade_interaction: the loop on the side, then the call of
\* record_trade with the member TradeType[indicator_input] and the message
AnswerIndicator(text) ==
    /\ shell.pc = "indicator"
    /\ IF upper(text) \notin {"BUY", "SELL"}
       THEN /\ shell' = Shown("indicator", "Invalid trade indicator. Please enter BUY or SELL.")
            /\ UNCHANGED stocks
       ELSE LET indicator == IF upper(text) = "BUY" THEN "TradeType.BUY"
                             ELSE "TradeType.SELL"
                r == record_trade(stocks[SessionStock], shell.quantity,
                                  shell.price, indicator, clock)
            IN  /\ r.out = None => TotalTrades(Symbols) < MaxTrades
                /\ stocks' = [stocks EXCEPT ![SessionStock].trades = r.trades]
                /\ shell' = Presented(r.out, {ValueError}, "Trade recorded successfully")
    /\ UNCHANGED <<enumSemantics, clock, ret, memo>>

\* main: the continuation prompt
Continue(text) ==
    /\ shell.pc = "continue"
    /\ shell' = IF upper(text) # "Y" THEN [NoShell EXCEPT !.pc = "done"]
                ELSE [NoShell EXCEPT !.pc = "menu", !.shown = "Select an operation:"]
    /\ UNCHANGED <<enumSemantics, clock, stocks, ret, memo>>

NextShell ==
    \/ \E d \in TickMinutes : Tick(d)
    \/ \E text \in TypeTexts : AnswerStockType(text)
    \/ \E text \in DividendTexts : AnswerDividend(text)
    \/ \E text \in ParTexts : AnswerParValue(text)
    \/ \E choice \in ChoiceTexts : Choose(choice)
    \/ \E text \in PriceTexts : AnswerYieldPrice(text)
    \/ \E text \in QuantityTexts : AnswerQuantity(text)
    \/ \E text \in PriceTexts : AnswerTradePrice(text)
    \/ \E text \in IndicatorTexts : AnswerIndicator(text)
    \/ \E text \in ContinueTexts : Continue(text)

SpecShell == InitShell /\ [][NextShell]_vars

----------------------------------------------------------------------------
(* Properties of the interactive shell *)

\* the session has a stock: get_stock_data_from_user has returned
Constructed == shell.pc \notin {"off", "stock_type", "dividend", "par_value"}

\* C13: every stock the construction prompts accept satisfies the data model
\* of the core: a Preferred stock has a fixed dividend rate in (0, 1], a
\* Common stock a last dividend that is not negative, the par value is
\* positive; and dividend_yield on it raises nothing for a positive price.
C13_ShellBuildsValidStock ==
    Constructed =>
        LET stock == stocks[SessionStock]
        IN  /\ stock.stock_type = "StockType.PREFERRED" =>
                  /\ IsFloat(stock.fixed_dividend)
                  /\ stock.fixed_dividend.n > 0
                  /\ stock.fixed_dividend.n <= stock.fixed_dividend.d
            /\ stock.stock_type = "StockType.COMMON" =>
                  /\ IsFloat(stock.last_dividend)
                  /\ stock.last_dividend.n >= 0
            /\ IsFloat(stock.par_value) /\ stock.par_value.n > 0
            /\ \A l \in FloatLiterals :
                  l[2].n > 0 => ~IsError(dividend_yield(stock, l[2]))

\* the text typed as quantity is no integer
Unparseable(text) == \A l \in IntLiterals : l[1] # text

\* the step ends a record-trade interaction that fails: the quantity typed is
\* no integer, or the side is given and the quantity or the price is not
\* positive
FailsRecordTrade ==
    \/ shell.pc = "quantity" /\ shell'.pc # "quantity" /\ Unparseable(shell'.typed)
    \/ /\ shell.pc = "indicator" /\ shell'.pc # "indicator"
       /\ shell.quantity <= 0 \/ shell.price <= 0

\* C14: a record-trade interaction that fails appends no trade, shows the
\* error and not the success message, and leaves the session at the
\* continuation prompt, the program not ended; and the success message comes
\* only with a step that has appended one trade to the ledger.
C14_FailedTradeIsPresented ==
    [][ /\ FailsRecordTrade =>
              /\ stocks' = stocks
              /\ shell'.shown = "Error"
              /\ shell'.pc = "continue"
        /\ (shell'.shown = "Trade recorded successfully" /\ shell' # shell) =>
              /\ Len(stocks'[SessionStock].trades) = Len(stocks[SessionStock].trades) + 1
              /\ SubSeq(stocks'[SessionStock].trades, 1, Len(stocks[SessionStock].trades))
                    = stocks[SessionStock].trades ]_vars

\* a session that has recorded a trade and then, asked for a quantity again,
\* was given a text that is no integer: it shows the error at the continuation
\* prompt, the trade still the only one
C14_Witness ==
    /\ shell.pc = "continue" /\ shell.shown = "Error"
    /\ Unparseable(shell.typed) /\ shell.typed # ""
    /\ Len(stocks[SessionStock].trades) = 1

====
